---- MODULE Spec2Model ----
(***************************************************************************)
(* Model of ulinux/smbus.py: the SMBus session (class SMBus), its          *)
(* capability gate, the generic dispatch _access and the thirteen typed    *)
(* operations, together with the I2C character device the two ioctls       *)
(* talk to.                                                                *)
(*                                                                         *)
(* The uctypes overlay is modelled by what its fields do: a UINT8 field    *)
(* keeps value mod 2^8, a UINT16 field keeps value mod 2^16 in two bytes,  *)
(* low byte first, 'block' is the 34 bytes of the buffer, and addressof    *)
(* needs an object with the buffer protocol (None has none: TypeError).    *)
(* Byte k of the buffer is element k + 1 of the sequence that models it.   *)
(***************************************************************************)
EXTENDS Integers, Sequences, FiniteSets, TLC

VARIABLES constructed, func, func0, funcsIoctls, loopback, serialized,
          slaveAddr, regs, written, pc, call, outcome, result,
          nSlave, nSmbus, slaveArg, submitted, interposed, execAddr

vars == <<constructed, func, func0, funcsIoctls, loopback, serialized,
          slaveAddr, regs, written, pc, call, outcome, result,
          nSlave, nSmbus, slaveArg, submitted, interposed, execAddr>>

kernelVars == <<slaveAddr, regs, written>>
sessionVars == <<constructed, func, func0, funcsIoctls, loopback, serialized>>

(* ---------------------------------------------------------------- bounds *)
\* how far past 32 (and below 0) the caller's lengths go
MaxExtra == 1
\* cap on the count of get-functions ioctls the model follows
MaxFuncsIoctls == 2

(* ------------------------------------------------------ program constants *)
_I2C_FUNC_I2C == 1
_I2C_FUNC_10BIT_ADDR == 2
_I2C_FUNC_PROTOCOL_MANGLING == 4
_I2C_FUNC_SMBUS_PEC == 8
_I2C_FUNC_NOSTART == 16
_I2C_FUNC_SLAVE == 32
_I2C_FUNC_SMBUS_BLOCK_PROC_CALL == 32768
_I2C_FUNC_SMBUS_QUICK == 65536
_I2C_FUNC_SMBUS_READ_BYTE == 131072
_I2C_FUNC_SMBUS_WRITE_BYTE == 262144
_I2C_FUNC_SMBUS_READ_BYTE_DATA == 524288
_I2C_FUNC_SMBUS_WRITE_BYTE_DATA == 1048576
_I2C_FUNC_SMBUS_READ_WORD_DATA == 2097152
_I2C_FUNC_SMBUS_WRITE_WORD_DATA == 4194304
_I2C_FUNC_SMBUS_PROC_CALL == 8388608
_I2C_FUNC_SMBUS_READ_BLOCK_DATA == 16777216
_I2C_FUNC_SMBUS_WRITE_BLOCK_DATA == 33554432
_I2C_FUNC_SMBUS_READ_I2C_BLOCK == 67108864
_I2C_FUNC_SMBUS_WRITE_I2C_BLOCK == 134217728

_I2C_SMBUS_BLOCK_MAX == 32
_size_of_i2c_smbus_data == _I2C_SMBUS_BLOCK_MAX + 2

_I2C_SMBUS_READ == 1
_I2C_SMBUS_WRITE == 0

_I2C_SMBUS_QUICK == 0
_I2C_SMBUS_BYTE == 1
_I2C_SMBUS_BYTE_DATA == 2
_I2C_SMBUS_WORD_DATA == 3
_I2C_SMBUS_PROC_CALL == 4
_I2C_SMBUS_BLOCK_DATA == 5
_I2C_SMBUS_I2C_BLOCK_BROKEN == 6
_I2C_SMBUS_BLOCK_PROC_CALL == 7
_I2C_SMBUS_I2C_BLOCK_DATA == 8

(* ------------------------------------------------------------ input sets *)
Threads == {"t1", "t2"}
Addresses == {32, 33}
Commands == {16}
NoAddr == 0 - 1
NoData == <<>>
None == "None"

Min(a, b) == IF a < b THEN a ELSE b

\* a caller's list of n byte values, all different, so that order shows
Vals(n) == [i \in 1..n |-> 2 * i + 1]

QuickValues == {0, 1}
ByteValues == {165}
WordValues == {4660, 255, 65535}
ValueLens == {0, 1} \cup (_I2C_SMBUS_BLOCK_MAX .. _I2C_SMBUS_BLOCK_MAX + MaxExtra)
ValueLists == {Vals(n) : n \in ValueLens}
ReadLens == ((0 - MaxExtra) .. 1) \cup (31 .. _I2C_SMBUS_BLOCK_MAX + MaxExtra)

\* the flag words the adapter may answer the get-functions ioctl with
ReadFuncs == _I2C_FUNC_I2C + _I2C_FUNC_SMBUS_QUICK + _I2C_FUNC_SMBUS_READ_BYTE
             + _I2C_FUNC_SMBUS_READ_BYTE_DATA + _I2C_FUNC_SMBUS_READ_WORD_DATA
             + _I2C_FUNC_SMBUS_READ_BLOCK_DATA + _I2C_FUNC_SMBUS_READ_I2C_BLOCK
WriteFuncs == _I2C_FUNC_SMBUS_PEC + _I2C_FUNC_SMBUS_BLOCK_PROC_CALL
              + _I2C_FUNC_SMBUS_WRITE_BYTE + _I2C_FUNC_SMBUS_WRITE_BYTE_DATA
              + _I2C_FUNC_SMBUS_WRITE_WORD_DATA + _I2C_FUNC_SMBUS_PROC_CALL
              + _I2C_FUNC_SMBUS_WRITE_BLOCK_DATA + _I2C_FUNC_SMBUS_WRITE_I2C_BLOCK
AllFuncs == ReadFuncs + WriteFuncs + _I2C_FUNC_10BIT_ADDR
            + _I2C_FUNC_PROTOCOL_MANGLING + _I2C_FUNC_NOSTART + _I2C_FUNC_SLAVE
FlagWords == {0, AllFuncs, ReadFuncs, WriteFuncs}

(* ------------------------------------------------------- binary layouts *)
\* bytearray(_size_of_i2c_smbus_data): 34 zero bytes
NewData == [i \in 1.._size_of_i2c_smbus_data |-> 0]

\* data.byte = value (UINT8 | 0)
SetByte(b, value) == [b EXCEPT ![1] = value % 256]
\* data.byte
GetByte(b) == b[1]
\* SetWord, high byte first
SetWordBigEndian(b, value) == [b EXCEPT ![1] = (value % 65536) \div 256,
                                        ![2] = (value % 65536) % 256]
\* data.word = value (UINT16 | 0, native little-endian)
SetWord(b, value) == [b EXCEPT ![1] = (value % 65536) % 256,
                               ![2] = (value % 65536) \div 256]
\* data.word
GetWord(b) == b[1] + 256 * b[2]
\* data.block = lst: the elements of lst go to bytes 0..len(lst)-1
SetBlock(b, lst) == [i \in 1.._size_of_i2c_smbus_data |->
                        IF i <= Len(lst) THEN lst[i] % 256 ELSE b[i]]
\* data.block[0] = length
SetBlockLen(b, length) == [b EXCEPT ![1] = length % 256]
\* Truncate, one element short: values[:31]
TruncateShort(values) == SubSeq(values, 1, Min(Len(values), 31))
\* values[:32]
Truncate(values) == SubSeq(values, 1, Min(Len(values), 32))
\* data.block[1:][:data.block[0]]
BlockResult(b) == SubSeq(b, 2, 1 + Min(b[1], _size_of_i2c_smbus_data - 1))

\* flags & bit, as a bool
HasFlag(flags, bit) == (flags \div bit) % 2 = 1

\* self._func as __init__ builds it from the flags word
FuncDict(flags) ==
    [i2c                   |-> HasFlag(flags, _I2C_FUNC_I2C),
     ten_bit_addr          |-> HasFlag(flags, _I2C_FUNC_10BIT_ADDR),
     protocol_mangling     |-> HasFlag(flags, _I2C_FUNC_PROTOCOL_MANGLING),
     smbus_pec             |-> HasFlag(flags, _I2C_FUNC_SMBUS_PEC),
     no_start              |-> HasFlag(flags, _I2C_FUNC_NOSTART),
     slave                 |-> HasFlag(flags, _I2C_FUNC_SLAVE),
     smbus_block_proc_call |-> HasFlag(flags, _I2C_FUNC_SMBUS_BLOCK_PROC_CALL),
     smbus_quick           |-> HasFlag(flags, _I2C_FUNC_SMBUS_QUICK),
     smbus_read_byte       |-> HasFlag(flags, _I2C_FUNC_SMBUS_READ_BYTE),
     smbus_write_byte      |-> HasFlag(flags, _I2C_FUNC_SMBUS_WRITE_BYTE),
     smbus_read_byte_data  |-> HasFlag(flags, _I2C_FUNC_SMBUS_READ_BYTE_DATA),
     smbus_write_byte_data |-> HasFlag(flags, _I2C_FUNC_SMBUS_WRITE_BYTE_DATA),
     smbus_read_word_data  |-> HasFlag(flags, _I2C_FUNC_SMBUS_READ_WORD_DATA),
     smbus_write_word_data |-> HasFlag(flags, _I2C_FUNC_SMBUS_WRITE_WORD_DATA),
     smbus_proc_call       |-> HasFlag(flags, _I2C_FUNC_SMBUS_PROC_CALL),
     smbus_read_block_data |-> HasFlag(flags, _I2C_FUNC_SMBUS_READ_BLOCK_DATA),
     smbus_write_block_data |-> HasFlag(flags, _I2C_FUNC_SMBUS_WRITE_BLOCK_DATA),
     smbus_read_i2c_block  |-> HasFlag(flags, _I2C_FUNC_SMBUS_READ_I2C_BLOCK),
     smbus_write_i2c_block |-> HasFlag(flags, _I2C_FUNC_SMBUS_WRITE_I2C_BLOCK)]

\* the capability each operation tests before anything else
Required ==
    [write_quick          |-> "smbus_quick",
     read_byte            |-> "smbus_read_byte",
     write_byte           |-> "smbus_write_byte",
     read_byte_data       |-> "smbus_read_byte_data",
     write_byte_data      |-> "smbus_write_byte_data",
     read_word_data       |-> "smbus_read_word_data",
     write_word_data      |-> "smbus_write_word_data",
     process_call         |-> "smbus_proc_call",
     read_block_data      |-> "smbus_read_block_data",
     write_block_data     |-> "smbus_write_block_data",
     read_i2c_block_data  |-> "smbus_read_i2c_block",
     write_i2c_block_data |-> "smbus_write_i2c_block",
     block_process_call   |-> "smbus_block_proc_call"]

(* ------------------------------------------------------------ the state *)
NoCall == [op |-> None, address |-> NoAddr, read_write |-> 0, command |-> 0,
           size |-> 0, data |-> NoData, arg |-> None]
NoRequest == [read_write |-> 0 - 1, command |-> 0 - 1, size |-> 0 - 1,
              data |-> NoData]
NoWrite == [op |-> None, arg |-> None]
NoResult == [kind |-> None, v |-> 0]

Init ==
    /\ constructed = FALSE
    /\ func = FuncDict(0)
    /\ func0 = FuncDict(0)
    /\ funcsIoctls = 0
    /\ loopback \in BOOLEAN
    /\ serialized = TRUE
    /\ slaveAddr = NoAddr
    /\ regs = [a \in Addresses |-> [c \in Commands |-> NewData]]
    /\ written = [a \in Addresses |-> [c \in Commands |-> NoWrite]]
    /\ pc = [t \in Threads |-> "idle"]
    /\ call = [t \in Threads |-> NoCall]
    /\ outcome = [t \in Threads |-> None]
    /\ result = [t \in Threads |-> NoResult]
    /\ nSlave = [t \in Threads |-> 0]
    /\ nSmbus = [t \in Threads |-> 0]
    /\ slaveArg = [t \in Threads |-> NoAddr]
    /\ submitted = [t \in Threads |-> NoRequest]
    /\ interposed = [t \in Threads |-> FALSE]
    /\ execAddr = [t \in Threads |-> NoAddr]

\* the same session shared by threads that take no lock around their calls
InitConc ==
    /\ constructed = FALSE
    /\ func = FuncDict(0)
    /\ func0 = FuncDict(0)
    /\ funcsIoctls = 0
    /\ loopback = FALSE
    /\ serialized = FALSE
    /\ slaveAddr = NoAddr
    /\ regs = [a \in Addresses |-> [c \in Commands |-> NewData]]
    /\ written = [a \in Addresses |-> [c \in Commands |-> NoWrite]]
    /\ pc = [t \in Threads |-> "idle"]
    /\ call = [t \in Threads |-> NoCall]
    /\ outcome = [t \in Threads |-> None]
    /\ result = [t \in Threads |-> NoResult]
    /\ nSlave = [t \in Threads |-> 0]
    /\ nSmbus = [t \in Threads |-> 0]
    /\ slaveArg = [t \in Threads |-> NoAddr]
    /\ submitted = [t \in Threads |-> NoRequest]
    /\ interposed = [t \in Threads |-> FALSE]
    /\ execAddr = [t \in Threads |-> NoAddr]

(* --------------------------------------------------------- the session *)
\* SMBus.__init__: one get-functions ioctl, then the capability dict
Construct(flags) ==
    /\ ~constructed
    /\ funcsIoctls < MaxFuncsIoctls
    /\ constructed' = TRUE
    /\ funcsIoctls' = funcsIoctls + 1
    /\ func' = FuncDict(flags)
    /\ func0' = FuncDict(flags)
    /\ UNCHANGED <<loopback, serialized, kernelVars, pc, call, outcome, result,
                   nSlave, nSmbus, slaveArg, submitted, interposed, execAddr>>

\* a caller may enter an operation; serialized callers wait for each other
CanEnter(t) ==
    /\ constructed
    /\ pc[t] = "idle"
    /\ serialized => \A u \in Threads : pc[u] = "idle"

\* Enter, with the capabilities queried again on every call
EnterRequery(t, op, supported, address, read_write, command, size, data, arg) ==
    /\ CanEnter(t)
    /\ funcsIoctls < MaxFuncsIoctls
    /\ funcsIoctls' = funcsIoctls + 1
    /\ call' = [call EXCEPT ![t] =
                  [op |-> op, address |-> address, read_write |-> read_write,
                   command |-> command, size |-> size, data |-> data,
                   arg |-> arg]]
    /\ IF ~supported
         THEN /\ pc' = [pc EXCEPT ![t] = "done"]
              /\ outcome' = [outcome EXCEPT ![t] = "RuntimeError"]
         ELSE /\ pc' = [pc EXCEPT ![t] = "slave"]
              /\ outcome' = [outcome EXCEPT ![t] = None]
    /\ UNCHANGED <<constructed, func, func0, loopback, serialized, kernelVars,
                   result, nSlave, nSmbus, slaveArg, submitted, interposed,
                   execAddr>>

\* the head of every operation: "if not self._func[...]: raise RuntimeError",
\* then the call of _access(address, read_write, command, size, data)
Enter(t, op, supported, address, read_write, command, size, data, arg) ==
    /\ CanEnter(t)
    /\ call' = [call EXCEPT ![t] =
                  [op |-> op, address |-> address, read_write |-> read_write,
                   command |-> command, size |-> size, data |-> data,
                   arg |-> arg]]
    /\ IF ~supported
         THEN /\ pc' = [pc EXCEPT ![t] = "done"]
              /\ outcome' = [outcome EXCEPT ![t] = "RuntimeError"]
         ELSE /\ pc' = [pc EXCEPT ![t] = "slave"]
              /\ outcome' = [outcome EXCEPT ![t] = None]
    /\ UNCHANGED <<sessionVars, kernelVars, result, nSlave, nSmbus, slaveArg,
                   submitted, interposed, execAddr>>

\* write_quick, gated on the capability of write_byte
write_quick_gated_as_write_byte(t, address, value) ==
    Enter(t, "write_quick", func.smbus_write_byte,
          address, value, 0, _I2C_SMBUS_QUICK, NoData, value)

write_quick(t, address, value) ==
    Enter(t, "write_quick", func.smbus_quick,
          address, value, 0, _I2C_SMBUS_QUICK, NoData, value)

read_byte(t, address) ==
    Enter(t, "read_byte", func.smbus_read_byte,
          address, _I2C_SMBUS_READ, 0, _I2C_SMBUS_BYTE, NewData, None)

write_byte(t, address, value) ==
    Enter(t, "write_byte", func.smbus_write_byte,
          address, _I2C_SMBUS_WRITE, value, _I2C_SMBUS_BYTE, NoData, value)

read_byte_data(t, address, command) ==
    Enter(t, "read_byte_data", func.smbus_read_byte_data,
          address, _I2C_SMBUS_READ, command, _I2C_SMBUS_BYTE_DATA, NewData, None)

write_byte_data(t, address, command, value) ==
    Enter(t, "write_byte_data", func.smbus_write_byte_data,
          address, _I2C_SMBUS_WRITE, command, _I2C_SMBUS_BYTE_DATA,
          SetByte(NewData, value), value)

read_word_data(t, address, command) ==
    Enter(t, "read_word_data", func.smbus_read_word_data,
          address, _I2C_SMBUS_READ, command, _I2C_SMBUS_WORD_DATA, NewData, None)

write_word_data(t, address, command, value) ==
    Enter(t, "write_word_data", func.smbus_write_word_data,
          address, _I2C_SMBUS_WRITE, command, _I2C_SMBUS_WORD_DATA,
          SetWord(NewData, value), value)

process_call(t, address, command, value) ==
    Enter(t, "process_call", func.smbus_proc_call,
          address, _I2C_SMBUS_WRITE, command, _I2C_SMBUS_PROC_CALL,
          SetWord(NewData, value), value)

read_block_data(t, address, command) ==
    Enter(t, "read_block_data", func.smbus_read_block_data,
          address, _I2C_SMBUS_READ, command, _I2C_SMBUS_BLOCK_DATA, NewData, None)

write_block_data(t, address, command, values) ==
    Enter(t, "write_block_data", func.smbus_write_block_data,
          address, _I2C_SMBUS_WRITE, command, _I2C_SMBUS_BLOCK_DATA,
          SetBlock(NewData, <<Len(Truncate(values))>> \o Truncate(values)),
          values)

\* I2cBlockReadSize, with the two size codes exchanged
I2cBlockReadSizeSwapped(length) ==
    IF Min(length, 32) = 32 THEN _I2C_SMBUS_I2C_BLOCK_DATA
                            ELSE _I2C_SMBUS_I2C_BLOCK_BROKEN

\* length = min(length, 32); data.block[0] = length; the size code by length
I2cBlockReadSize(length) ==
    IF Min(length, 32) = 32 THEN _I2C_SMBUS_I2C_BLOCK_BROKEN
                            ELSE _I2C_SMBUS_I2C_BLOCK_DATA

read_i2c_block_data(t, address, command, length) ==
    Enter(t, "read_i2c_block_data", func.smbus_read_i2c_block,
          address, _I2C_SMBUS_READ, command, I2cBlockReadSize(length),
          SetBlockLen(NewData, Min(length, 32)), length)

write_i2c_block_data(t, address, command, values) ==
    Enter(t, "write_i2c_block_data", func.smbus_write_i2c_block,
          address, _I2C_SMBUS_WRITE, command, _I2C_SMBUS_I2C_BLOCK_BROKEN,
          SetBlock(NewData, <<Len(Truncate(values))>> \o Truncate(values)),
          values)

block_process_call(t, address, command, values) ==
    Enter(t, "block_process_call", func.smbus_block_proc_call,
          address, _I2C_SMBUS_WRITE, command, _I2C_SMBUS_BLOCK_PROC_CALL,
          SetBlock(NewData, <<Len(Truncate(values))>> \o Truncate(values)),
          values)

\* what each operation returns once _access has come back
Returns(op, data) ==
    CASE op \in {"read_byte", "read_byte_data"} ->
           [kind |-> "byte", v |-> GetByte(data)]
      [] op \in {"read_word_data", "process_call"} ->
           [kind |-> "word", v |-> GetWord(data)]
      [] op \in {"read_block_data", "read_i2c_block_data", "block_process_call"} ->
           [kind |-> "block", v |-> BlockResult(data)]
      [] OTHER -> NoResult

(* ------------------------------------------------------ the I2C device *)
\* an ioctl on the handle by t falls between the two ioctls of every other
\* call that has addressed the chip and not yet executed
Interpose(t) ==
    [u \in Threads |-> IF u # t /\ pc[u] = "exec" THEN TRUE ELSE interposed[u]]

\* the buffers an adapter that is no loopback may leave behind
KernelLens == {1, _I2C_SMBUS_BLOCK_MAX, _I2C_SMBUS_BLOCK_MAX + MaxExtra, 255}
KernelBuffer(n) ==
    [i \in 1.._size_of_i2c_smbus_data |-> IF i = 1 THEN n ELSE 100 + i]
KernelBuffers == {KernelBuffer(n) : n \in KernelLens}

\* the driver copies the buffer back for reads and for the two process calls
CopiesBack(req) ==
    /\ req.size # _I2C_SMBUS_QUICK
    /\ \/ req.read_write = _I2C_SMBUS_READ
       \/ req.size \in {_I2C_SMBUS_PROC_CALL, _I2C_SMBUS_BLOCK_PROC_CALL}

\* the loopback chip keeps what is written to one of its registers
Stores(req) ==
    /\ req.read_write = _I2C_SMBUS_WRITE
    /\ req.size \notin {_I2C_SMBUS_QUICK, _I2C_SMBUS_BYTE}
    /\ req.command \in Commands

\* what the loopback chip at addr answers for a register
LoopRead(addr, command) ==
    IF command \in Commands THEN regs[addr][command] ELSE NewData

\* the buffers the execute ioctl may leave in place of req.data
Responses(req) ==
    IF ~CopiesBack(req) THEN {req.data}
    ELSE IF ~loopback
           THEN IF serialized THEN KernelBuffers
                              ELSE {KernelBuffer(_I2C_SMBUS_BLOCK_MAX)}
    ELSE IF req.read_write = _I2C_SMBUS_READ
           THEN {LoopRead(slaveAddr, req.command)}
           ELSE {req.data}

(* ------------------------------------------------------------- _access *)
\* AccessSlave, with the ioctl left out when the handle already holds address
AccessSlaveCached(t) ==
    /\ pc[t] = "slave"
    /\ IF slaveAddr = call[t].address
         THEN /\ pc' = [pc EXCEPT ![t] = "exec"]
              /\ UNCHANGED <<nSlave, slaveArg, interposed, slaveAddr, outcome>>
         ELSE /\ nSlave' = [nSlave EXCEPT ![t] = @ + 1]
              /\ slaveArg' = [slaveArg EXCEPT ![t] = call[t].address]
              /\ interposed' = [Interpose(t) EXCEPT ![t] = FALSE]
              /\ \E ok \in BOOLEAN :
                   IF ok
                     THEN /\ slaveAddr' = call[t].address
                          /\ pc' = [pc EXCEPT ![t] = "exec"]
                          /\ outcome' = outcome
                     ELSE /\ slaveAddr' = slaveAddr
                          /\ pc' = [pc EXCEPT ![t] = "done"]
                          /\ outcome' = [outcome EXCEPT ![t] = "OSError"]
    /\ UNCHANGED <<sessionVars, regs, written, call, result, nSmbus,
                   submitted, execAddr>>

\* AccessSlave, going on to the execute ioctl after a failed ioctl
AccessSlaveGoesOn(t) ==
    /\ pc[t] = "slave"
    /\ nSlave' = [nSlave EXCEPT ![t] = @ + 1]
    /\ slaveArg' = [slaveArg EXCEPT ![t] = call[t].address]
    /\ interposed' = [Interpose(t) EXCEPT ![t] = FALSE]
    /\ pc' = [pc EXCEPT ![t] = "exec"]
    /\ \E ok \in BOOLEAN :
         IF ok
           THEN /\ slaveAddr' = call[t].address
                /\ outcome' = outcome
           ELSE /\ slaveAddr' = slaveAddr
                /\ outcome' = [outcome EXCEPT ![t] = "OSError"]
    /\ UNCHANGED <<sessionVars, regs, written, call, result, nSmbus,
                   submitted, execAddr>>

\* AccessSlave, with an ioctl that leaves the handle's address as it was
AccessSlaveNoAddress(t) ==
    /\ pc[t] = "slave"
    /\ nSlave' = [nSlave EXCEPT ![t] = @ + 1]
    /\ slaveArg' = [slaveArg EXCEPT ![t] = call[t].address]
    /\ interposed' = [Interpose(t) EXCEPT ![t] = FALSE]
    /\ slaveAddr' = slaveAddr
    /\ \E ok \in BOOLEAN :
         IF ok
           THEN /\ pc' = [pc EXCEPT ![t] = "exec"]
                /\ outcome' = outcome
           ELSE /\ pc' = [pc EXCEPT ![t] = "done"]
                /\ outcome' = [outcome EXCEPT ![t] = "OSError"]
    /\ UNCHANGED <<sessionVars, regs, written, call, result, nSmbus,
                   submitted, execAddr>>

\* ioctl(self._fd, _I2C_SLAVE, address)
AccessSlave(t) ==
    /\ pc[t] = "slave"
    /\ nSlave' = [nSlave EXCEPT ![t] = @ + 1]
    /\ slaveArg' = [slaveArg EXCEPT ![t] = call[t].address]
    /\ interposed' = [Interpose(t) EXCEPT ![t] = FALSE]
    /\ \E ok \in BOOLEAN :
         IF ok
           THEN /\ slaveAddr' = call[t].address
                /\ pc' = [pc EXCEPT ![t] = "exec"]
                /\ outcome' = outcome
           ELSE /\ slaveAddr' = slaveAddr
                /\ pc' = [pc EXCEPT ![t] = "done"]
                /\ outcome' = [outcome EXCEPT ![t] = "OSError"]
    /\ UNCHANGED <<sessionVars, regs, written, call, result, nSmbus,
                   submitted, execAddr>>

\* the request _access builds: read_write and command are UINT8 fields
Request(c) ==
    [read_write |-> c.read_write % 256, command |-> c.command % 256,
     size |-> c.size, data |-> c.data]

\* addressof(data) needs a buffer: None raises TypeError
CanBuild(c) == c.data # NoData

\* the rest of _access: build the request, ioctl(self._fd, _I2C_SMBUS, args),
\* and the operation's return
AccessSmbus(t) ==
    /\ pc[t] = "exec"
    /\ pc' = [pc EXCEPT ![t] = "done"]
    /\ IF ~CanBuild(call[t])
         THEN /\ outcome' = [outcome EXCEPT ![t] = "TypeError"]
              /\ UNCHANGED <<kernelVars, call, result, nSmbus, submitted,
                             interposed, execAddr>>
         ELSE LET req == Request(call[t]) IN
              /\ nSmbus' = [nSmbus EXCEPT ![t] = @ + 1]
              /\ submitted' = [submitted EXCEPT ![t] = req]
              /\ execAddr' = [execAddr EXCEPT ![t] = slaveAddr]
              /\ interposed' = Interpose(t)
              /\ slaveAddr' = slaveAddr
              /\ \E ok \in BOOLEAN :
                   IF ok
                     THEN /\ outcome' = [outcome EXCEPT ![t] = "ok"]
                          /\ \E back \in Responses(req) :
                               /\ call' = [call EXCEPT ![t].data = back]
                               /\ result' = [result EXCEPT ![t] =
                                               Returns(call[t].op, back)]
                          /\ IF loopback /\ Stores(req)
                               THEN /\ regs' = [regs EXCEPT
                                         ![slaveAddr][req.command] = req.data]
                                    /\ written' = [written EXCEPT
                                         ![slaveAddr][req.command] =
                                            [op |-> call[t].op,
                                             arg |-> call[t].arg]]
                               ELSE UNCHANGED <<regs, written>>
                     ELSE /\ outcome' = [outcome EXCEPT ![t] = "OSError"]
                          /\ UNCHANGED <<regs, written, call, result>>
    /\ UNCHANGED <<sessionVars, nSlave, slaveArg>>

\* the call is over: its frame goes away
Return(t) ==
    /\ pc[t] = "done"
    /\ pc' = [pc EXCEPT ![t] = "idle"]
    /\ call' = [call EXCEPT ![t] = NoCall]
    /\ outcome' = [outcome EXCEPT ![t] = None]
    /\ result' = [result EXCEPT ![t] = NoResult]
    /\ nSlave' = [nSlave EXCEPT ![t] = 0]
    /\ nSmbus' = [nSmbus EXCEPT ![t] = 0]
    /\ slaveArg' = [slaveArg EXCEPT ![t] = NoAddr]
    /\ submitted' = [submitted EXCEPT ![t] = NoRequest]
    /\ interposed' = [interposed EXCEPT ![t] = FALSE]
    /\ execAddr' = [execAddr EXCEPT ![t] = NoAddr]
    /\ UNCHANGED <<sessionVars, kernelVars>>

\* the arguments callers pass; threads that share the session without a lock
\* are followed with one value of each kind
Words == IF serialized THEN WordValues ELSE {4660}
Lists == IF serialized THEN ValueLists ELSE {Vals(1)}
Lens == IF serialized THEN ReadLens ELSE {1}

Next ==
    \/ \E flags \in FlagWords : Construct(flags)
    \/ \E t \in Threads, a \in Addresses, v \in QuickValues : write_quick(t, a, v)
    \/ \E t \in Threads, a \in Addresses : read_byte(t, a)
    \/ \E t \in Threads, a \in Addresses, v \in ByteValues : write_byte(t, a, v)
    \/ \E t \in Threads, a \in Addresses, c \in Commands : read_byte_data(t, a, c)
    \/ \E t \in Threads, a \in Addresses, c \in Commands, v \in ByteValues :
         write_byte_data(t, a, c, v)
    \/ \E t \in Threads, a \in Addresses, c \in Commands : read_word_data(t, a, c)
    \/ \E t \in Threads, a \in Addresses, c \in Commands, v \in Words :
         write_word_data(t, a, c, v)
    \/ \E t \in Threads, a \in Addresses, c \in Commands, v \in Words :
         process_call(t, a, c, v)
    \/ \E t \in Threads, a \in Addresses, c \in Commands : read_block_data(t, a, c)
    \/ \E t \in Threads, a \in Addresses, c \in Commands, vs \in Lists :
         write_block_data(t, a, c, vs)
    \/ \E t \in Threads, a \in Addresses, c \in Commands, n \in Lens :
         read_i2c_block_data(t, a, c, n)
    \/ \E t \in Threads, a \in Addresses, c \in Commands, vs \in Lists :
         write_i2c_block_data(t, a, c, vs)
    \/ \E t \in Threads, a \in Addresses, c \in Commands, vs \in Lists :
         block_process_call(t, a, c, vs)
    \/ \E t \in Threads : AccessSlave(t)
    \/ \E t \in Threads : AccessSmbus(t)
    \/ \E t \in Threads : Return(t)

Spec == Init /\ [][Next]_vars

SpecConc == InitConc /\ [][Next]_vars

(* ------------------------------------------------------------ the claims *)
InCall(t) == call[t].op # None
Gated(t) == InCall(t) /\ ~func[Required[call[t].op]]
Dispatched(t) == InCall(t) /\ nSmbus[t] > 0

\* C1: an operation whose required capability is false ends with the
\* unsupported-function error (RuntimeError) and has issued no ioctl, neither
\* set-slave-address nor SMBus-execute, whatever its arguments
C1_GateBeforeIo ==
    \A t \in Threads :
        Gated(t) => /\ pc[t] = "done"
                    /\ outcome[t] = "RuntimeError"
                    /\ nSlave[t] = 0
                    /\ nSmbus[t] = 0
                    /\ submitted[t] = NoRequest

C1_Witness ==
    \E t \in Threads :
        /\ Gated(t)
        /\ call[t].op = "block_process_call"
        /\ outcome[t] = "RuntimeError"
        /\ \E u \in DOMAIN func : func[u]

\* C2: every call that passes its gate issues the set-slave-address ioctl with
\* its own address argument before the SMBus-execute ioctl, on every call
\* (also when the handle already holds that address); with serialized callers
\* no other ioctl on the handle falls between the two
C2_AddressThenExecute ==
    \A t \in Threads :
        /\ (InCall(t) /\ pc[t] = "exec")
              => nSlave[t] = 1 /\ slaveArg[t] = call[t].address
        /\ (InCall(t) /\ pc[t] = "done" /\ outcome[t] # "RuntimeError")
              => nSlave[t] = 1 /\ slaveArg[t] = call[t].address
        /\ Dispatched(t)
              => /\ nSlave[t] = 1
                 /\ slaveArg[t] = call[t].address
                 /\ serialized => /\ ~interposed[t]
                                  /\ execAddr[t] = call[t].address

\* the handle held the call's address before the call, and the call has set
\* it again and executed
C2_Witness ==
    \E t \in Threads :
        /\ Dispatched(t)
        /\ outcome[t] = "ok"
        /\ nSlave[t] = 1
        /\ call[t].op = "read_block_data"
        /\ written[call[t].address][call[t].command].op = "write_block_data"

\* C3: a failed ioctl ends the operation with an I/O error and no value; a
\* failed set-slave-address is not followed by an execute, a failed execute is
\* not retried; one call issues at most one ioctl of each kind
C3_NoRetry ==
    \A t \in Threads :
        /\ nSlave[t] <= 1
        /\ nSmbus[t] <= 1
        /\ outcome[t] = "OSError"
              => /\ pc[t] = "done"
                 /\ result[t] = NoResult
                 /\ nSlave[t] = 1

C3_Witness ==
    \E t \in Threads :
        /\ outcome[t] = "OSError"
        /\ nSlave[t] = 1
        /\ nSmbus[t] = 1
        /\ call[t].op = "read_word_data"

\* C4: read_i2c_block_data submits the "broken" I2C-block code (6) for a
\* requested length of exactly 32 and the I2C-block-data code (8) for any
\* length 1..31; write_i2c_block_data submits the "broken" code (6) for every
\* payload length
C4_SizeCodes ==
    \A t \in Threads :
        Dispatched(t) =>
            /\ call[t].op = "read_i2c_block_data" =>
                  /\ call[t].arg = 32 => submitted[t].size = 6
                  /\ call[t].arg \in 1..31 => submitted[t].size = 8
            /\ call[t].op = "write_i2c_block_data" => submitted[t].size = 6

C4_Witness ==
    \E t \in Threads :
        /\ Dispatched(t)
        /\ call[t].op = "read_i2c_block_data"
        /\ call[t].arg = 31
        /\ submitted[t].size = 8

BlockWriters == {"write_block_data", "write_i2c_block_data", "block_process_call"}
BeforeDispatch(t) == InCall(t) /\ pc[t] \in {"slave", "exec"}
Clamp(n, lo, hi) == IF n < lo THEN lo ELSE IF n > hi THEN hi ELSE n

\* C5: in every block-shaped operation the length in byte 0 of the data
\* buffer before dispatch is in 0..32: min(n, 32) for a sequence of n values,
\* with the first min(n, 32) values after it in order, and for
\* read_i2c_block_data the requested length clamped to 0..32
C5_LengthClamped ==
    \A t \in Threads :
        BeforeDispatch(t) =>
            /\ call[t].op \in BlockWriters =>
                  LET n == Len(call[t].arg) IN
                  /\ call[t].data[1] \in 0..32
                  /\ call[t].data[1] = Min(n, 32)
                  /\ \A i \in 1..Min(n, 32) : call[t].data[i + 1] = call[t].arg[i]
            /\ call[t].op = "read_i2c_block_data" =>
                  /\ call[t].data[1] \in 0..32
                  /\ call[t].data[1] = Clamp(call[t].arg, 0, 32)

C7_WordLittleEndian ==
    \A t \in Threads :
        /\ (Dispatched(t) /\ call[t].op = "write_word_data"
                          /\ call[t].arg \in 0..65535)
              => /\ submitted[t].data[1] = call[t].arg % 256
                 /\ submitted[t].data[2] = call[t].arg \div 256
        /\ (/\ InCall(t)
            /\ call[t].op = "read_word_data"
            /\ outcome[t] = "ok"
            /\ loopback
            /\ serialized
            /\ written[call[t].address][call[t].command].op = "write_word_data"
            /\ written[call[t].address][call[t].command].arg \in 0..65535)
              => /\ result[t].kind = "word"
                 /\ result[t].v = written[call[t].address][call[t].command].arg

\* 0x1234 written, 0x34 0x12 in the buffer, 0x1234 read back
C7_Witness ==
    \E t \in Threads :
        /\ InCall(t)
        /\ call[t].op = "read_word_data"
        /\ outcome[t] = "ok"
        /\ loopback
        /\ written[call[t].address][call[t].command].op = "write_word_data"
        /\ written[call[t].address][call[t].command].arg = 4660
        /\ regs[call[t].address][call[t].command][1] = 52
        /\ regs[call[t].address][call[t].command][2] = 18
        /\ result[t].v = 4660

\* C8: with the quick capability, write_quick(address, value) comes to its
\* end having submitted exactly one execute transaction of size code 0,
\* read_write = value and command 0; it needs no data buffer, so the call
\* reaches the execute ioctl instead of failing while the request is built
C8_QuickSubmitted ==
    \A t \in Threads :
        (/\ InCall(t)
         /\ call[t].op = "write_quick"
         /\ func.smbus_quick
         /\ pc[t] = "done"
         /\ nSlave[t] = 1
         /\ outcome[t] # "OSError")
        => /\ outcome[t] = "ok"
           /\ nSmbus[t] = 1
           /\ submitted[t].size = 0
           /\ submitted[t].read_write = call[t].arg
           /\ submitted[t].command = 0

Misdirected(t) == Dispatched(t) /\ execAddr[t] # call[t].address

\* C9: the session holds no lock and address-then-execute is not atomic: an
\* execute ioctl runs with the handle holding another address than the one
\* its operation was given exactly when another thread's ioctl has fallen
\* between that operation's two ioctls, and unserialized threads reach it
C9_MisdirectedByInterleaving ==
    \A t \in Threads :
        Misdirected(t) => /\ interposed[t]
                          /\ ~serialized
                          /\ slaveArg[t] = call[t].address
                          /\ execAddr[t] \in Addresses \ {call[t].address}

C9_Witness ==
    \E t \in Threads :
        /\ Misdirected(t)
        /\ interposed[t]
        /\ outcome[t] = "ok"
        /\ slaveArg[t] = call[t].address
        /\ execAddr[t] \in Addresses

\* C10: the get-functions ioctl is issued once, by the constructor, and after
\* any calls it has still been issued once and every entry of the capability
\* set has the value construction gave it
C10_CapabilitiesOnce ==
    /\ constructed => funcsIoctls = 1 /\ func = func0
    /\ ~constructed => funcsIoctls = 0

C10_Witness ==
    /\ constructed
    /\ funcsIoctls = 1
    /\ slaveAddr \in Addresses
    /\ \E t \in Threads : pc[t] = "done" /\ outcome[t] = "OSError"
    /\ \E t \in Threads : pc[t] = "idle"

BlockReaders == {"read_block_data", "read_i2c_block_data", "block_process_call"}

\* C11: every block-returning operation returns at most 32 values, whatever
\* the execute ioctl has left in the 34-byte buffer (a length byte above 32
\* included); the values are bytes 1..length of the buffer and the reserved
\* byte 33 is never among them
C11_BlockResultBounded ==
    \A t \in Threads :
        (/\ InCall(t)
         /\ call[t].op \in BlockReaders
         /\ outcome[t] = "ok")
        => /\ result[t].kind = "block"
           /\ Len(result[t].v) <= 32
           /\ Len(result[t].v) = Min(call[t].data[1], 32)
           /\ \A i \in 1..Len(result[t].v) : result[t].v[i] = call[t].data[i + 1]

====
